---- MODULE Spec2Model ----
(***************************************************************************)
(* c-ares-resolver: the event loop that bridges the c-ares socket-state    *)
(* callback to a one-shot poller, and the three resolver facades           *)
(* (Resolver, BlockingResolver, FutureResolver) built on it.               *)
(*                                                                         *)
(* The c-ares engine is an external library.  It is modelled as the        *)
(* environment: inside any call into the channel it may invoke the         *)
(* socket-state callback, the pending-write callback and completion        *)
(* handlers, as its documentation allows.                                  *)
(***************************************************************************)
EXTENDS Integers, FiniteSets, Sequences, TLC

\* ------------------------------------------------------------------ bounds
MaxQueries == 2      \* queries a program issues through a facade
MaxLoopQueries == 1  \* queries issued while the engine's sockets are observed
MaxSockets == 1      \* sockets the engine opens
MaxCallers == 2      \* threads that share one Resolver

Queries == 1..MaxQueries
Sockets == 1..MaxSockets
Callers == 1..MaxCallers

\* c_ares::Result as seen by a completion handler.
EngineOutcomes == {"ok", "err"}
Outcomes == EngineOutcomes \cup {"ECANCELLED", "EDESTRUCTION"}

VARIABLES
  cares1_34,      \* build cfg: c-ares >= 1.34 (process_fds, pending write)
  env,            \* this run: the engine's sockets and pending writes, the
                  \* queries, whether the DnsRecord methods are used, what
                  \* fails during construction
  facade,         \* which resolver type the program uses
  interests,      \* HashMap<Socket, Interest>, as [Sockets -> entry]
  poller,         \* polling::Poller: sources, notification, failure, calls
  quit,           \* AtomicBool shared by the stopper and the loop
  pending_write,  \* AtomicBool set by the pending-write callback
  ares_channel,   \* holders of the Arc<Mutex<Channel>>, the engine's sockets,
                  \* the holder of the mutex, the threads inside the engine
  queries,        \* per query: engine state, handler bookkeeping and the
                  \* value the query method returned
  loop,           \* loop thread: pc, events, results of the last wait, the
                  \* process calls it has made in this cycle, and whether
                  \* it holds the guard of the interests mutex
  user,           \* caller thread: pc, owned values, the constructor's result,
                  \* and the calls of the threads that share the Resolver
  chan,           \* per query: the single-shot delivery channel
  ret,            \* per query: value delivered to the caller
  hist            \* observation: Resolver drops, parity of the cancel calls,
                  \* the queries in flight when the facade was dropped,
                  \* the queries issued before the loop thread panicked

vars == <<cares1_34, env, facade, interests, poller, quit, pending_write,
          ares_channel, queries, loop, user, chan, ret, hist>>

\* ------------------------------------------------------- Interest Registry
\* struct Interest(bool, bool); an absent key has has = FALSE.
NoInterest == [has |-> FALSE, r |-> FALSE, w |-> FALSE]
Interest(readable, writable) == [has |-> TRUE, r |-> readable, w |-> writable]

\* A poller source: registered or not, its one-shot interest, and whether
\* the registration is still armed (an event disarms it).
NoSource == [reg |-> FALSE, r |-> FALSE, w |-> FALSE, armed |-> FALSE]
Source(readable, writable) ==
  [reg |-> TRUE, r |-> readable, w |-> writable, armed |-> TRUE]

\* Observation: the add, modify and delete calls made by the latest step
\* that used the poller, as <<operation, socket>>.
Op(p, name, socket) == Append(p.ops, <<name, socket>>)

\* Poller::add fails on a source that is already registered.
PollerAdd(p, socket, readable, writable) ==
  IF p.sources[socket].reg
  THEN [p EXCEPT !.failed = TRUE, !.ops = Op(p, "add", socket)]
  ELSE [p EXCEPT !.sources[socket] = Source(readable, writable),
                 !.ops = Op(p, "add", socket)]

\* Poller::modify fails on a source that is not registered; it re-arms.
PollerModify(p, socket, readable, writable) ==
  IF ~p.sources[socket].reg
  THEN [p EXCEPT !.failed = TRUE, !.ops = Op(p, "modify", socket)]
  ELSE [p EXCEPT !.sources[socket] = Source(readable, writable),
                 !.ops = Op(p, "modify", socket)]

\* Poller::delete fails on a source that is not registered.
PollerDelete(p, socket) ==
  IF ~p.sources[socket].reg
  THEN [p EXCEPT !.failed = TRUE, !.ops = Op(p, "delete", socket)]
  ELSE [p EXCEPT !.sources[socket] = NoSource,
                 !.ops = Op(p, "delete", socket)]

PollerNotify(p) == [p EXCEPT !.notified = TRUE]

\* Mutant: an existing entry is replaced without the poller being told.
sock_callback_NoModify(st, socket, readable, writable) ==
  IF ~readable /\ ~writable
  THEN IF st.interests[socket].has
       THEN [interests |-> [st.interests EXCEPT ![socket] = NoInterest],
             poller |-> PollerDelete(st.poller, socket)]
       ELSE st
  ELSE IF ~st.interests[socket].has
       THEN [interests |-> [st.interests EXCEPT
                              ![socket] = Interest(readable, writable)],
             poller |-> PollerAdd(st.poller, socket, readable, writable)]
       ELSE [interests |-> [st.interests EXCEPT
                              ![socket] = Interest(readable, writable)],
             poller |-> st.poller]

\* Mutant: an entry is removed without the socket being deleted from the
\* poller.
sock_callback_NoDelete(st, socket, readable, writable) ==
  IF ~readable /\ ~writable
  THEN [interests |-> [st.interests EXCEPT ![socket] = NoInterest],
        poller |-> st.poller]
  ELSE IF ~st.interests[socket].has
       THEN [interests |-> [st.interests EXCEPT
                              ![socket] = Interest(readable, writable)],
             poller |-> PollerAdd(st.poller, socket, readable, writable)]
       ELSE [interests |-> [st.interests EXCEPT
                              ![socket] = Interest(readable, writable)],
             poller |-> PollerModify(st.poller, socket, readable, writable)]

\* Mutant: an existing entry is re-registered with delete and add instead
\* of modify.
sock_callback_DeleteAdd(st, socket, readable, writable) ==
  IF ~readable /\ ~writable
  THEN IF st.interests[socket].has
       THEN [interests |-> [st.interests EXCEPT ![socket] = NoInterest],
             poller |-> PollerDelete(st.poller, socket)]
       ELSE st
  ELSE IF ~st.interests[socket].has
       THEN [interests |-> [st.interests EXCEPT
                              ![socket] = Interest(readable, writable)],
             poller |-> PollerAdd(st.poller, socket, readable, writable)]
       ELSE [interests |-> [st.interests EXCEPT
                              ![socket] = Interest(readable, writable)],
             poller |-> PollerAdd(PollerDelete(st.poller, socket),
                                  socket, readable, writable)]

\* Mutant: the callback also notifies the poller when it is told of an
\* interest.
sock_callback_Notifies(st, socket, readable, writable) ==
  IF ~readable /\ ~writable
  THEN IF st.interests[socket].has
       THEN [interests |-> [st.interests EXCEPT ![socket] = NoInterest],
             poller |-> PollerDelete(st.poller, socket)]
       ELSE st
  ELSE IF ~st.interests[socket].has
       THEN [interests |-> [st.interests EXCEPT
                              ![socket] = Interest(readable, writable)],
             poller |-> PollerNotify(
                          PollerAdd(st.poller, socket, readable, writable))]
       ELSE [interests |-> [st.interests EXCEPT
                              ![socket] = Interest(readable, writable)],
             poller |-> PollerNotify(
                          PollerModify(st.poller, socket, readable, writable))]

\* The socket-state callback installed on the options.  st is the pair
\* (interests, poller) it works on, under the interests lock.
sock_callback(st, socket, readable, writable) ==
  IF ~readable /\ ~writable
  THEN IF st.interests[socket].has
       THEN [interests |-> [st.interests EXCEPT ![socket] = NoInterest],
             poller |-> PollerDelete(st.poller, socket)]
       ELSE st
  ELSE IF ~st.interests[socket].has
       THEN [interests |-> [st.interests EXCEPT
                              ![socket] = Interest(readable, writable)],
             poller |-> PollerAdd(st.poller, socket, readable, writable)]
       ELSE [interests |-> [st.interests EXCEPT
                              ![socket] = Interest(readable, writable)],
             poller |-> PollerModify(st.poller, socket, readable, writable)]

\* The engine's calls of the socket-state callback during one engine call.
RECURSIVE ApplyUpdates(_, _)
ApplyUpdates(st, seq) ==
  IF seq = <<>> THEN st
  ELSE ApplyUpdates(sock_callback(st, Head(seq)[1], Head(seq)[2], Head(seq)[3]),
                    Tail(seq))

\* What the engine may ask for in one call: nothing, or one interest change
\* on one of the sockets it uses.
OneUpdate == { <<s, r, w>> : s \in env.sockets, r \in BOOLEAN, w \in BOOLEAN }
Updates == { <<>> } \cup { <<u>> : u \in OneUpdate }

\* The engine's own view of a socket: the last interest it reported.
RECURSIVE EngineView(_, _)
EngineView(view, seq) ==
  IF seq = <<>> THEN view
  ELSE EngineView([view EXCEPT ![Head(seq)[1]] =
                     IF Head(seq)[2] \/ Head(seq)[3]
                     THEN Interest(Head(seq)[2], Head(seq)[3])
                     ELSE NoInterest],
                  Tail(seq))

\* ares_destroy closes every socket the engine has open, reporting
\* (socket, false, false) for each.
RECURSIVE CloseAll(_)
CloseAll(S) ==
  IF S = {} THEN <<>>
  ELSE LET s == CHOOSE x \in S : \A y \in S : x <= y
       IN  <<  <<s, FALSE, FALSE>> >> \o CloseAll(S \ {s})

OpenSockets(view) == { s \in Sockets : view[s].has }

\* ------------------------------------------------------------------ engine
Unissued == { q \in env.queries : queries[q].st = "none" }
InFlight == { q \in Queries : queries[q].st = "inflight" }
Issued == { q \in Queries : queries[q].st # "none" }
\* by is the thread the handler ran on.
NoQuery ==
  [st |-> "none", fired |-> 0, arg |-> "none", status |-> "none",
   by |-> "none"]

\* Mutant: the handler drops the result instead of sending it.
Handler_NoSend(c, out) == c

\* Mutant: the handler sends a success whatever the engine reported.
Handler_SwallowsError(c, out) == IF c = "empty" THEN "ok" ELSE c

\* Mutant: the channel is a rendezvous channel (capacity 0), on which a
\* send waits for the receiver.
Handler_Rendezvous(c, out) == IF c = "empty" THEN "sending" ELSE c

\* Mutant: the handler unwraps the result of the send, which fails when
\* the receiver is gone.
Handler_UnwrapsSend(c, out) ==
  IF c = "empty" THEN out ELSE IF c = "closed" THEN "panic" ELSE c

\* The completion handler each facade hands to the Resolver, acting on the
\* query's delivery channel c:
\*   Resolver          the caller's own closure (no channel)
\*   BlockingResolver  move |result| tx.send(result).unwrap()
\*   FutureResolver    |result| { let _ = sender.send(result); }
\* Some methods send result.map(Into::into) or result.map(to_owned): the
\* variant of the Result and the error in it are kept.  A send to a channel
\* whose receiver is gone ("closed") is discarded.
Handler(c, out) == IF c = "empty" THEN out ELSE c

\* The engine invokes, on the calling thread, the handlers of the queries
\* in done with the outcome out[q]: the engine's side ...
FireQueries(thread, done, out) ==
  [q \in Queries |->
     IF q \in done
     THEN [queries[q] EXCEPT !.st = "done", !.fired = @ + 1, !.arg = out[q],
                             !.by = thread]
     ELSE queries[q]]

\* ... and the handlers' side, on the delivery channels ch.
FireHandlers(ch, done, out) ==
  [q \in Queries |-> IF q \in done THEN Handler(ch[q], out[q]) ELSE ch[q]]

PendingWriteChoices == IF cares1_34 /\ env.pending THEN BOOLEAN ELSE {FALSE}

\* Mutant: the pending-write callback sets the flag and does not notify
\* the poller.
EngineCall_NoNotify(thread, qs, ch, done, out, upd, pw) ==
  LET st == ApplyUpdates([interests |-> interests,
                          poller |-> [poller EXCEPT !.ops = <<>>]], upd)
  IN  /\ queries' = [q \in Queries |->
                       IF q \in done
                       THEN [qs[q] EXCEPT !.st = "done", !.fired = @ + 1,
                                          !.arg = out[q], !.by = thread]
                       ELSE qs[q]]
      /\ chan' = FireHandlers(ch, done, out)
      /\ interests' = st.interests
      /\ poller' = st.poller
      /\ pending_write' = (pending_write \/ pw)
      /\ ares_channel' = [ares_channel EXCEPT
                            !.view = EngineView(@, upd),
                            !.inside = @ \ ares_channel.lock,
                            !.lock = {}]

\* One call into the engine by thread, under the channel mutex:
\*   self.ares_channel.lock().unwrap().f(..)
\* The guard is a temporary, dropped when the call has returned.  Before it
\* returns the engine fires the handlers of done, invokes the socket-state callback for
\* each update of upd and (c-ares >= 1.34) the pending-write callback if pw.
EngineCall(thread, qs, ch, done, out, upd, pw) ==
  LET st == ApplyUpdates([interests |-> interests,
                          poller |-> [poller EXCEPT !.ops = <<>>]], upd)
  IN  /\ queries' = [q \in Queries |->
                       IF q \in done
                       THEN [qs[q] EXCEPT !.st = "done", !.fired = @ + 1,
                                          !.arg = out[q], !.by = thread]
                       ELSE qs[q]]
      /\ chan' = FireHandlers(ch, done, out)
      /\ interests' = st.interests
      /\ poller' = IF pw THEN PollerNotify(st.poller) ELSE st.poller
      /\ pending_write' = (pending_write \/ pw)
      /\ ares_channel' = [ares_channel EXCEPT
                            !.view = EngineView(@, upd),
                            !.inside = @ \ ares_channel.lock,
                            !.lock = {}]

\* What one process call of the engine may complete: nothing, or one
\* in-flight query with the engine's own outcome.
Completions ==
  { [done |-> {}, out |-> [q \in Queries |-> "none"]] } \cup
  { [done |-> {q}, out |-> [x \in Queries |-> o]] :
      q \in InFlight, o \in EngineOutcomes }

\* Drop for c_ares::Channel (ares_destroy): every in-flight handler fires
\* with EDESTRUCTION and every open socket is closed.
Destroyed == [q \in Queries |-> "EDESTRUCTION"]

\* Mutant: the channel is destroyed without the engine closing its
\* sockets, so that no socket-state callback is made.
Release_LeavesSockets(holder, ch, notify) ==
  LET refs == ares_channel.refs \ {holder}
      last == refs = {} /\ ares_channel.refs # {}
      cur  == [interests |-> interests, poller |-> poller]
      used == [cur EXCEPT !.poller.ops = <<>>]
      st   == IF notify THEN used ELSE cur
  IN  /\ ares_channel' = [ares_channel EXCEPT
            !.refs = refs,
            !.view = IF last THEN [s \in Sockets |-> NoInterest] ELSE @]
      /\ queries' = IF last
                  THEN FireQueries(IF holder = "loop" THEN "loop" ELSE "caller",
                                   InFlight, Destroyed)
                  ELSE queries
      /\ chan' = IF last THEN FireHandlers(ch, InFlight, Destroyed) ELSE ch
      /\ interests' = st.interests
      /\ poller' = IF notify THEN PollerNotify(st.poller) ELSE st.poller
      /\ pending_write' = pending_write

\* Release one reference to the Arc<Mutex<Channel>>; the thread that
\* releases the last one runs the channel's drop.  ch is the state of the
\* delivery channels at that point, notify whether the poller is notified
\* afterwards.
Release(holder, ch, notify) ==
  LET refs == ares_channel.refs \ {holder}
      last == refs = {} /\ ares_channel.refs # {}
      cur  == [interests |-> interests, poller |-> poller]
      used == [cur EXCEPT !.poller.ops = <<>>]
      st   == IF last
              THEN ApplyUpdates(used, CloseAll(OpenSockets(ares_channel.view)))
              ELSE IF notify THEN used ELSE cur
  IN  /\ ares_channel' = [ares_channel EXCEPT
            !.refs = refs,
            !.view = IF last THEN [s \in Sockets |-> NoInterest] ELSE @]
      /\ queries' = IF last
                  THEN FireQueries(IF holder = "loop" THEN "loop" ELSE "caller",
                                   InFlight, Destroyed)
                  ELSE queries
      /\ chan' = IF last THEN FireHandlers(ch, InFlight, Destroyed) ELSE ch
      /\ interests' = st.interests
      /\ poller' = IF notify THEN PollerNotify(st.poller) ELSE st.poller
      /\ pending_write' = pending_write

\* A thread that shares the Resolver (&Resolver is Send and Sync): where it
\* is in its call, the method it calls and the query it issues.
NoCall == [pc |-> "out", op |-> "none", q |-> 0]

\* ---------------------------------------------------------------- Init
\* EventLoop::new, EventLoop::run and the facade's constructor have run.
Init ==
  /\ cares1_34 \in BOOLEAN
  /\ env \in [sockets : {{}, Sockets}, pending : BOOLEAN,
             queries : {1..MaxLoopQueries, Queries}, dnsrec : BOOLEAN,
             fail : {"none"}]
  /\ facade \in {"raw", "blocking", "future"}
  /\ interests = [s \in Sockets |-> NoInterest]
  /\ poller = [sources |-> [s \in Sockets |-> NoSource],
               notified |-> FALSE, failed |-> FALSE, ops |-> <<>>]
  /\ quit = FALSE
  /\ pending_write = FALSE
  /\ ares_channel = [refs |-> {"resolver", "loop"},
                     view |-> [s \in Sockets |-> NoInterest],
                     lock |-> {}, inside |-> {}]
  /\ queries = [q \in Queries |-> NoQuery]
  /\ loop = [pc |-> "wait", events |-> {}, results |-> "ok", todo |-> {},
             told |-> <<>>, interests_guard |-> FALSE]
  /\ user = [pc |-> "idle", q |-> 0, alive |-> TRUE, futures |-> {},
             new |-> "Ok", calls |-> [c \in Callers |-> NoCall]]
  /\ chan = [q \in Queries |-> "none"]
  /\ ret = [q \in Queries |-> "none"]
  /\ hist = [drops |-> 0, cancels |-> 0, atDrop |-> {}, panicked |-> FALSE,
             atPanic |-> {}]

\* ------------------------------------------------------------ loop thread
Event(key, readable, writable) ==
  [key |-> key, readable |-> readable, writable |-> writable]

\* The event sets a wait may report: at most one event per armed source,
\* readable, writable or both.
EventSets ==
  LET armedSocks == { s \in Sockets : poller.sources[s].reg
                                      /\ poller.sources[s].armed }
      Flags == { <<TRUE, FALSE>>, <<FALSE, TRUE>>, <<TRUE, TRUE>> }
  IN  UNION { { { Event(s, f[s][1], f[s][2]) : s \in S } : f \in [S -> Flags] } :
              S \in SUBSET armedSocks }

\* self.poller.wait(&mut events, Some(timeout)): returns on readiness, on a
\* notification, on the timeout, or with an error.  A reported event
\* disarms its source (oneshot mode).
LoopWait ==
  /\ loop.pc = "wait"
  /\ \E res \in {"ok", "interrupted", "error"} :
     \E evs \in (IF res = "ok" THEN EventSets ELSE {{}}) :
       /\ loop' = [loop EXCEPT !.pc = "check", !.events = evs,
                               !.results = res,
                               !.todo = IF cares1_34 THEN {} ELSE evs]
       /\ poller' = IF res = "ok"
                    THEN [poller EXCEPT
                            !.notified = FALSE,
                            !.ops = <<>>,
                            !.sources = [s \in Sockets |->
                               IF \E e \in evs : e.key = s
                               THEN [poller.sources[s] EXCEPT !.armed = FALSE]
                               ELSE poller.sources[s]]]
                    ELSE [poller EXCEPT !.ops = <<>>]
  /\ UNCHANGED <<cares1_34, env, facade, interests, quit, pending_write,
                 ares_channel, queries, user, chan, ret, hist>>

\* The loop thread returns or unwinds: the EventLoop is dropped and with it
\* the loop's reference to the channel.
LoopExit(pc) ==
  /\ loop' = [loop EXCEPT !.pc = pc, !.events = {}, !.told = <<>>, !.todo = {},
                          !.results = "ok"]
  /\ Release("loop", chan, FALSE)

\* Mutant: the loop breaks but the EventLoop, and its reference to the
\* channel, is never dropped.
LoopQuit_KeepsChannel ==
  /\ loop.pc = "check"
  /\ quit
  /\ loop' = [loop EXCEPT !.pc = "terminated", !.events = {}, !.told = <<>>, !.todo = {},
                          !.results = "ok"]
  /\ UNCHANGED <<cares1_34, env, facade, interests, poller, quit,
                 pending_write, ares_channel, queries, user, chan, ret, hist>>

\* Mutant: the loop thread takes the flag with a swap, which clears it.
LoopQuit_ClearsFlag ==
  /\ loop.pc = "check"
  /\ quit
  /\ quit' = FALSE
  /\ LoopExit("terminated")
  /\ UNCHANGED <<cares1_34, env, facade, user, ret, hist>>

\* if self.quit.load() { break }
LoopQuit ==
  /\ loop.pc = "check"
  /\ quit
  /\ LoopExit("terminated")
  /\ UNCHANGED <<cares1_34, env, facade, quit, user, ret, hist>>

\* Mutant: an interrupted wait is taken for one that reported no event.
LoopInterrupted_Handles ==
  /\ loop.pc = "check"
  /\ ~quit
  /\ loop.results = "interrupted"
  /\ loop' = [loop EXCEPT !.pc = "handle", !.results = "ok"]
  /\ UNCHANGED <<cares1_34, env, facade, interests, poller, quit,
                 pending_write, ares_channel, queries, user, chan, ret, hist>>

\* Interrupted is OK, we just retry.
LoopInterrupted ==
  /\ loop.pc = "check"
  /\ ~quit
  /\ loop.results = "interrupted"
  /\ loop' = [loop EXCEPT !.pc = "wait", !.results = "ok"]
  /\ UNCHANGED <<cares1_34, env, facade, interests, poller, quit,
                 pending_write, ares_channel, queries, user, chan, ret, hist>>

\* Mutant: the failed wait is taken for one that reported no event.
LoopPollFailed_GoesOn ==
  /\ loop.pc = "check"
  /\ ~quit
  /\ loop.results = "error"
  /\ loop' = [loop EXCEPT !.pc = "handle", !.results = "ok"]
  /\ UNCHANGED <<cares1_34, env, facade, interests, poller, quit,
                 pending_write, ares_channel, queries, user, chan, ret, hist>>

\* Mutant: the panic is caught and the loop goes back to its wait.
LoopPollFailed_Respawns ==
  /\ loop.pc = "check"
  /\ ~quit
  /\ loop.results = "error"
  /\ loop' = [loop EXCEPT !.pc = "wait", !.results = "ok"]
  /\ hist' = [hist EXCEPT !.panicked = TRUE, !.atPanic = Issued]
  /\ UNCHANGED <<cares1_34, env, facade, interests, poller, quit,
                 pending_write, ares_channel, queries, user, chan, ret>>

\* results.expect("Poll failed"): the thread panics.
LoopPollFailed ==
  /\ loop.pc = "check"
  /\ ~quit
  /\ loop.results = "error"
  /\ LoopExit("panicked")
  /\ hist' = [hist EXCEPT !.panicked = TRUE, !.atPanic = Issued]
  /\ UNCHANGED <<cares1_34, env, facade, quit, user, ret>>

\* Mutant: the cycle goes on without looking at quit.
LoopProceed_BeforeQuit ==
  /\ loop.pc = "check"
  /\ loop.results = "ok"
  /\ loop' = [loop EXCEPT !.pc = IF cares1_34 /\ pending_write
                                 THEN "flush" ELSE "handle"]
  /\ pending_write' = IF cares1_34 THEN FALSE ELSE pending_write
  /\ UNCHANGED <<cares1_34, env, facade, interests, poller, quit,
                 ares_channel, queries, user, chan, ret, hist>>

\* Mutant: the pending-write flag is cleared but the flush is left out.
LoopProceed_SkipsFlush ==
  /\ loop.pc = "check"
  /\ ~quit
  /\ loop.results = "ok"
  /\ loop' = [loop EXCEPT !.pc = "handle"]
  /\ pending_write' = IF cares1_34 THEN FALSE ELSE pending_write
  /\ UNCHANGED <<cares1_34, env, facade, interests, poller, quit,
                 ares_channel, queries, user, chan, ret, hist>>

\* The wait succeeded and quit was not set: go on with the cycle.  With
\* c-ares >= 1.34: if self.pending_write.swap(false) { flush }.
LoopProceed ==
  /\ loop.pc = "check"
  /\ ~quit
  /\ loop.results = "ok"
  /\ loop' = [loop EXCEPT !.pc = IF cares1_34 /\ pending_write
                                 THEN "flush" ELSE "handle"]
  /\ pending_write' = IF cares1_34 THEN FALSE ELSE pending_write
  /\ UNCHANGED <<cares1_34, env, facade, interests, poller, quit,
                 ares_channel, queries, user, chan, ret, hist>>

\* self.ares_channel.lock().unwrap().process_pending_write()
LoopFlush ==
  /\ loop.pc = "flush"
  /\ \E c \in Completions, upd \in Updates, pw \in PendingWriteChoices :
       EngineCall("loop", queries, chan, c.done, c.out, upd, pw)
  /\ loop' = [loop EXCEPT !.pc = "handle"]
  /\ UNCHANGED <<cares1_34, env, facade, quit, user, ret, hist>>

\* What a process call tells the engine: the sockets it passes as ready to
\* read and as ready to write.
SOCKET_BAD == -1

FdEvents(socket, read, write) == [fd |-> socket, read |-> read, write |-> write]

process_fds(fd_events) ==
  [f |-> "process_fds",
   read |-> { x.fd : x \in { y \in fd_events : y.read } },
   write |-> { x.fd : x \in { y \in fd_events : y.write } }]

process_fd(read_fd, write_fd) ==
  [f |-> "process_fd",
   read |-> {read_fd} \ {SOCKET_BAD},
   write |-> {write_fd} \ {SOCKET_BAD}]

\* Mutant: only the events of sockets that still have an entry in the
\* registry are handed to the engine.
LoopProcessFds_Filtered ==
  /\ loop.pc = "handle"
  /\ cares1_34
  /\ \E c \in Completions, upd \in Updates, pw \in PendingWriteChoices :
       EngineCall("loop", queries, chan, c.done, c.out, upd, pw)
  /\ loop' = [loop EXCEPT
       !.pc = "rearm",
       !.told = Append(@, process_fds(
                  { FdEvents(e.key, e.readable, e.writable) :
                      e \in { x \in loop.events : interests[x.key].has } }))]
  /\ UNCHANGED <<cares1_34, env, facade, quit, user, ret, hist>>

\* handle_events with c-ares >= 1.34: one process_fds call with all events.
LoopProcessFds ==
  /\ loop.pc = "handle"
  /\ cares1_34
  /\ \E c \in Completions, upd \in Updates, pw \in PendingWriteChoices :
       EngineCall("loop", queries, chan, c.done, c.out, upd, pw)
  /\ loop' = [loop EXCEPT
       !.pc = "rearm",
       !.told = Append(@, process_fds(
                  { FdEvents(e.key, e.readable, e.writable) : e \in loop.events }))]
  /\ UNCHANGED <<cares1_34, env, facade, quit, user, ret, hist>>

\* Mutant: the socket is passed as ready to read whatever the event says.
rfd_Always(event) == event.key

\* let rfd = if event.readable { socket } else { c_ares::SOCKET_BAD };
rfd(event) == IF event.readable THEN event.key ELSE SOCKET_BAD

\* let wfd = if event.writable { socket } else { c_ares::SOCKET_BAD };
wfd(event) == IF event.writable THEN event.key ELSE SOCKET_BAD

\* handle_events before c-ares 1.34: one process_fd call per event, each
\* under its own lock of the channel ...
LoopProcessFd ==
  /\ loop.pc = "handle"
  /\ ~cares1_34
  /\ \E e \in loop.todo :
       /\ \E c \in Completions, upd \in Updates :
            EngineCall("loop", queries, chan, c.done, c.out, upd, FALSE)
       /\ loop' = [loop EXCEPT !.todo = @ \ {e},
                     !.pc = IF loop.todo = {e} THEN "rearm" ELSE "handle",
                     !.told = Append(@, process_fd(rfd(e), wfd(e)))]
  /\ UNCHANGED <<cares1_34, env, facade, quit, user, ret, hist>>

\* Mutant: with no event reported the engine is not called at all.
LoopProcessTimeouts_Skipped ==
  /\ loop.pc = "handle"
  /\ ~cares1_34
  /\ loop.events = {}
  /\ loop' = [loop EXCEPT !.pc = "rearm"]
  /\ UNCHANGED <<cares1_34, env, facade, interests, poller, quit,
                 pending_write, ares_channel, queries, user, chan, ret, hist>>

\* ... or, when there was no event, one with SOCKET_BAD for the timeouts.
LoopProcessTimeouts ==
  /\ loop.pc = "handle"
  /\ ~cares1_34
  /\ loop.events = {}
  /\ \E c \in Completions, upd \in Updates :
       EngineCall("loop", queries, chan, c.done, c.out, upd, FALSE)
  /\ loop' = [loop EXCEPT
       !.pc = "rearm",
       !.told = Append(@, process_fd(SOCKET_BAD, SOCKET_BAD))]
  /\ UNCHANGED <<cares1_34, env, facade, quit, user, ret, hist>>

\* Mutant: the pass renews every socket that has an entry in the registry.
Renewed_AllRegistered == { s \in Sockets : interests[s].has }

\* Mutant: every reported socket is re-armed, without a look at the
\* registry.
Renewed_AllReported == { s \in Sockets : \E e \in loop.events : e.key = s }

\* The sockets whose interest the re-arm pass renews: those reported in
\* this cycle that still have an entry in the registry.
Renewed == { s \in Sockets : (\E e \in loop.events : e.key = s)
                              /\ interests[s].has }

RECURSIVE Renew(_, _)
Renew(p, S) ==
  IF S = {} THEN p
  ELSE LET s == CHOOSE x \in S : \A y \in S : x <= y
       IN  Renew(PollerModify(p, s, interests[s].r, interests[s].w), S \ {s})

\* Mutant: the cycle ends without the re-arm pass.
LoopRearm_NoRenew ==
  /\ loop.pc = "rearm"
  /\ loop' = [loop EXCEPT !.pc = "wait", !.events = {}, !.told = <<>>]
  /\ UNCHANGED <<cares1_34, env, facade, interests, poller, quit,
                 pending_write, ares_channel, queries, user, chan, ret, hist>>

\* Re-assert our interest in all reported sockets (under the interests
\* lock), then back to the top of the loop: events.clear().
LoopRearm ==
  /\ loop.pc = "rearm"
  /\ poller' = Renew([poller EXCEPT !.ops = <<>>], Renewed)
  /\ loop' = [loop EXCEPT !.pc = "wait", !.events = {}, !.told = <<>>,
                          !.interests_guard = FALSE]
  /\ UNCHANGED <<cares1_34, env, facade, interests, quit, pending_write,
                 ares_channel, queries, user, chan, ret, hist>>

\* ------------------------------------------------------------ caller thread
\* The Resolver value is alive while something owns it: the caller (raw,
\* blocking), or the FutureResolver or a CAresFuture through the Arc.
ResolverAlive == "resolver" \in ares_channel.refs

\* Mutant: the Resolver holds no EventLoopStopper: nothing stops the loop.
DropResolver_NoStop(ch, h, u) ==
  /\ Release("resolver", ch, FALSE)
  /\ quit' = quit
  /\ hist' = [h EXCEPT !.drops = @ + 1]
  /\ user' = u

\* Drop for Resolver: fields are dropped in declaration order, the channel
\* reference first, then the EventLoopStopper (StopperStore,
\* StopperNotify).  u is the caller's state apart from that.
DropResolver(ch, h, u) ==
  /\ Release("resolver", ch, FALSE)
  /\ quit' = quit
  /\ hist' = [h EXCEPT !.drops = @ + 1]
  /\ user' = [u EXCEPT !.pc = "store"]

\* Drop for EventLoopStopper: self.quit.store(true, Ordering::Relaxed) ...
StopperStore ==
  /\ user.pc = "store"
  /\ quit' = TRUE
  /\ user' = [user EXCEPT !.pc = "notify"]
  /\ UNCHANGED <<cares1_34, env, facade, interests, poller, pending_write,
                 ares_channel, queries, loop, chan, ret, hist>>

\* Mutant: the stopper sets the flag and does not wake the poller.
StopperNotify_NoWake ==
  /\ user.pc = "notify"
  /\ user' = [user EXCEPT !.pc = "idle"]
  /\ UNCHANGED <<cares1_34, env, facade, interests, poller, quit,
                 pending_write, ares_channel, queries, loop, chan, ret, hist>>

\* ... and then self.poller.notify().
StopperNotify ==
  /\ user.pc = "notify"
  /\ poller' = PollerNotify([poller EXCEPT !.ops = <<>>])
  /\ user' = [user EXCEPT !.pc = "idle"]
  /\ UNCHANGED <<cares1_34, env, facade, interests, quit, pending_write,
                 ares_channel, queries, loop, chan, ret, hist>>

\* Mutant: every facade offers the DnsRecord methods.
QueryKinds_AllFacades ==
  IF env.dnsrec THEN {"plain", "dnsrec"} ELSE {"plain"}

\* The query methods a facade offers: all return () except
\* Resolver::send_dnsrec, query_dnsrec and search_dnsrec (c-ares >= 1.28),
\* which return c_ares::Result<()>.
QueryKinds ==
  IF facade = "raw" /\ env.dnsrec THEN {"plain", "dnsrec"} ELSE {"plain"}

\* What the query method returns: the DnsRecord methods pass on the status
\* of the engine call, an error if the engine refused the query (it has
\* then also called the handler with that error).
Status(kind, sync) ==
  IF kind = "plain" THEN "unit"
  ELSE IF sync = "err" THEN "Err" ELSE "Ok"

\* A query method of any facade.  The blocking and the future facade create
\* the single-shot channel first; then
\*   self.ares_channel.lock().unwrap().query_xxx(name, handler)
\* where the engine takes the query in flight, or completes it before the
\* call returns (sync).  FutureResolver then clones the Arc into the future.
UserQuery ==
  /\ user.pc = "idle"
  /\ user.alive
  /\ Unissued # {}
  /\ LET q == CHOOSE x \in Unissued : \A y \in Unissued : x <= y
     IN  /\ \E kind \in QueryKinds, sync \in {"no"} \cup EngineOutcomes,
               upd \in Updates, pw \in PendingWriteChoices :
               EngineCall("caller",
                          [queries EXCEPT ![q].st = "inflight",
                                          ![q].status = Status(kind, sync)],
                          [chan EXCEPT ![q] = IF facade = "raw" THEN "none"
                                              ELSE "empty"],
                          IF sync = "no" THEN {} ELSE {q},
                          [x \in Queries |-> sync], upd, pw)
         /\ user' = [user EXCEPT
                       !.q = IF facade = "blocking" THEN q ELSE @,
                       !.pc = IF facade = "blocking" THEN "recv" ELSE "idle",
                       !.futures = IF facade = "future" THEN @ \cup {q} ELSE @]
  /\ UNCHANGED <<cares1_34, env, facade, quit, loop, ret, hist>>

\* Mutant: the call returns without waiting for the handler.
UserRecv_NoWait ==
  /\ user.pc = "recv"
  /\ ret' = [ret EXCEPT ![user.q] = chan[user.q]]
  /\ chan' = [chan EXCEPT ![user.q] = "taken"]
  /\ user' = [user EXCEPT !.pc = "idle", !.q = 0]
  /\ UNCHANGED <<cares1_34, env, facade, interests, poller, quit,
                 pending_write, ares_channel, queries, loop, hist>>

\* rx.recv().unwrap(): blocks until the handler has sent.
UserRecv ==
  /\ user.pc = "recv"
  /\ chan[user.q] \in Outcomes
  /\ ret' = [ret EXCEPT ![user.q] = chan[user.q]]
  /\ chan' = [chan EXCEPT ![user.q] = "taken"]
  /\ user' = [user EXCEPT !.pc = "idle", !.q = 0]
  /\ UNCHANGED <<cares1_34, env, facade, interests, poller, quit,
                 pending_write, ares_channel, queries, loop, hist>>

\* Mutant: cancel never reaches the channel.
UserCancel_NotForwarded ==
  /\ user.pc = "idle"
  /\ user.alive
  /\ facade \in {"raw", "future"}
  /\ hist' = [hist EXCEPT !.cancels = 1 - @]
  /\ UNCHANGED <<cares1_34, env, facade, interests, poller, quit,
                 pending_write, ares_channel, queries, loop, user, chan, ret>>

\* Mutant: cancel is handed to the loop thread, which fires the handlers.
UserCancel_OnLoopThread ==
  /\ user.pc = "idle"
  /\ user.alive
  /\ facade \in {"raw", "future"}
  /\ \E upd \in Updates, pw \in PendingWriteChoices :
       EngineCall("loop", queries, chan, InFlight,
                  [q \in Queries |-> "ECANCELLED"], upd, pw)
  /\ hist' = [hist EXCEPT !.cancels = 1 - @]
  /\ UNCHANGED <<cares1_34, env, facade, quit, loop, user, ret>>

\* Resolver::cancel / FutureResolver::cancel:
\*   self.ares_channel.lock().unwrap().cancel()
\* Every in-flight handler fires with ECANCELLED before the call returns.
UserCancel ==
  /\ user.pc = "idle"
  /\ user.alive
  /\ facade \in {"raw", "future"}
  /\ \E upd \in Updates, pw \in PendingWriteChoices :
       EngineCall("caller", queries, chan, InFlight,
                  [q \in Queries |-> "ECANCELLED"], upd, pw)
  /\ hist' = [hist EXCEPT !.cancels = 1 - @]
  /\ UNCHANGED <<cares1_34, env, facade, quit, loop, user, ret>>

\* Mutant: the FutureResolver owns the Resolver instead of sharing it.
UserDropFacade_Owned ==
  /\ user.pc = "idle"
  /\ user.alive
  /\ DropResolver(chan, [hist EXCEPT !.atDrop = InFlight],
                  [user EXCEPT !.alive = FALSE])
  /\ UNCHANGED <<cares1_34, env, facade, loop, ret>>

\* The facade value goes out of scope.  Resolver and BlockingResolver own
\* the Resolver; FutureResolver shares it with the futures it returned.
UserDropFacade ==
  /\ user.pc = "idle"
  /\ user.alive
  /\ IF facade = "future" /\ user.futures # {}
     THEN /\ user' = [user EXCEPT !.alive = FALSE]
          /\ hist' = [hist EXCEPT !.atDrop = InFlight]
          /\ UNCHANGED <<interests, poller, quit, pending_write, ares_channel,
                         queries, chan>>
     ELSE DropResolver(chan, [hist EXCEPT !.atDrop = InFlight],
                       [user EXCEPT !.alive = FALSE])
  /\ UNCHANGED <<cares1_34, env, facade, loop, ret>>

\* Mutant: poll passes a success on and keeps waiting on anything else.
PollResult_OnlySuccess(c) ==
  IF c = "ok" THEN c ELSE "Pending"

\* Mutant: the receiver's result is unwrapped: a dropped sender panics.
PollResult_Unwrap(c) ==
  IF c \in Outcomes THEN c
  ELSE IF c = "dropped" THEN "panic"
  ELSE "Pending"

\* What CAresFuture::poll makes of the receiver's state:
\*   result.unwrap_or(Err(c_ares::Error::ECANCELLED))
PollResult(c) ==
  IF c \in Outcomes THEN c
  ELSE IF c = "dropped" THEN "ECANCELLED"
  ELSE "Pending"

\* CAresFuture::poll, on a future that has not yet returned Ready.
UserPoll(q) ==
  /\ facade = "future"
  /\ q \in user.futures
  /\ ret[q] = "none"
  /\ PollResult(chan[q]) # "Pending"
  /\ ret' = [ret EXCEPT ![q] = PollResult(chan[q])]
  /\ chan' = [chan EXCEPT ![q] = "taken"]
  /\ UNCHANGED <<cares1_34, env, facade, interests, poller, quit,
                 pending_write, ares_channel, queries, loop, user, hist>>

\* CAresFuture::poll at any time before it has returned Ready, a poll that
\* returns Pending included.
FuturePoll(q) ==
  /\ facade = "future"
  /\ q \in user.futures
  /\ ret[q] \in {"none", "Pending"}
  /\ ret' = [ret EXCEPT ![q] = PollResult(chan[q])]
  /\ chan' = [chan EXCEPT ![q] = IF PollResult(@) = "Pending" THEN @
                                 ELSE "taken"]
  /\ UNCHANGED <<cares1_34, env, facade, interests, poller, quit,
                 pending_write, ares_channel, queries, loop, user, hist>>

\* The engine calls the handler of a query in flight, from whichever of
\* its entry points: the closure sends the result into the one-shot.
EngineCompletes(q) ==
  /\ queries[q].st = "inflight"
  /\ \E o \in Outcomes :
       EngineCall("loop", queries, chan, {q}, [x \in Queries |-> o],
                  <<>>, FALSE)
  /\ UNCHANGED <<cares1_34, env, facade, quit, loop, user, ret, hist>>

\* The engine drops the handler of a query in flight without calling it
\* (a defect of the engine): the closure's sender is dropped unsent.
EngineDropsHandler(q) ==
  /\ queries[q].st = "inflight"
  /\ queries' = [queries EXCEPT ![q].st = "done"]
  /\ chan' = [chan EXCEPT ![q] = IF @ = "empty" THEN "dropped" ELSE @]
  /\ UNCHANGED <<cares1_34, env, facade, interests, poller, quit,
                 pending_write, ares_channel, loop, user, ret, hist>>

\* Mutant: the last future to go drops the Resolver even though the
\* FutureResolver is still alive.
UserDropFuture_LastFuture(q) ==
  /\ facade = "future"
  /\ q \in user.futures
  /\ IF user.futures = {q}
     THEN DropResolver([chan EXCEPT ![q] = "closed"], hist,
                       [user EXCEPT !.futures = @ \ {q}])
     ELSE /\ user' = [user EXCEPT !.futures = @ \ {q}]
          /\ chan' = [chan EXCEPT ![q] = "closed"]
          /\ UNCHANGED <<interests, poller, quit, pending_write, ares_channel,
                         queries, hist>>
  /\ UNCHANGED <<cares1_34, env, facade, loop, ret>>

\* Mutant: the future holds no owning reference to the Resolver that its
\* drop could release.
UserDropFuture_KeepsResolver(q) ==
  /\ facade = "future"
  /\ q \in user.futures
  /\ user' = [user EXCEPT !.futures = @ \ {q}]
  /\ chan' = [chan EXCEPT ![q] = "closed"]
  /\ UNCHANGED <<interests, poller, quit, pending_write, ares_channel,
                 queries, hist>>
  /\ UNCHANGED <<cares1_34, env, facade, loop, ret>>

\* A CAresFuture is dropped: its receiver closes, then its Arc<Resolver> is
\* released, which drops the Resolver if it was the last owner.
UserDropFuture(q) ==
  /\ facade = "future"
  /\ q \in user.futures
  /\ IF ~user.alive /\ user.futures = {q}
     THEN DropResolver([chan EXCEPT ![q] = "closed"], hist,
                       [user EXCEPT !.futures = @ \ {q}])
     ELSE /\ user' = [user EXCEPT !.futures = @ \ {q}]
          /\ chan' = [chan EXCEPT ![q] = "closed"]
          /\ UNCHANGED <<interests, poller, quit, pending_write, ares_channel,
                         queries, hist>>
  /\ UNCHANGED <<cares1_34, env, facade, loop, ret>>

\* ------------------------------------------------------------ construction
\* impl From<io::Error> for Error / impl From<c_ares::Error> for Error,
\* applied by the ? operator.
ErrorFrom(err) == IF err = "io::Error" THEN "Io" ELSE "Ares"

\* Before Resolver::with_options: nothing exists yet.
InitNew ==
  /\ cares1_34 \in BOOLEAN
  /\ env \in [sockets : {{}}, pending : {FALSE}, queries : {Queries},
             dnsrec : {TRUE}, fail : {"none", "poller", "channel"}]
  /\ facade \in {"raw", "blocking", "future"}
  /\ interests = [s \in Sockets |-> NoInterest]
  /\ poller = [sources |-> [s \in Sockets |-> NoSource],
               notified |-> FALSE, failed |-> FALSE, ops |-> <<>>]
  /\ quit = FALSE
  /\ pending_write = FALSE
  /\ ares_channel = [refs |-> {}, view |-> [s \in Sockets |-> NoInterest],
                     lock |-> {}, inside |-> {}]
  /\ queries = [q \in Queries |-> NoQuery]
  /\ loop = [pc |-> "unspawned", events |-> {}, results |-> "ok", todo |-> {},
             told |-> <<>>, interests_guard |-> FALSE]
  /\ user = [pc |-> "with_options", q |-> 0, alive |-> FALSE, futures |-> {},
             new |-> "none", calls |-> [c \in Callers |-> NoCall]]
  /\ chan = [q \in Queries |-> "none"]
  /\ ret = [q \in Queries |-> "none"]
  /\ hist = [drops |-> 0, cancels |-> 0, atDrop |-> {}, panicked |-> FALSE,
             atPanic |-> {}]

\* EventLoop::new: let poller = Arc::new(polling::Poller::new()?);
NewPoller ==
  /\ user.pc = "with_options"
  /\ user' = IF env.fail = "poller"
             THEN [user EXCEPT !.pc = "failed", !.new = ErrorFrom("io::Error")]
             ELSE [user EXCEPT !.pc = "channel"]
  /\ UNCHANGED <<cares1_34, env, facade, interests, poller, quit,
                 pending_write, ares_channel, queries, loop, chan, ret, hist>>

\* Mutant: a channel that cannot be constructed is not noticed.
NewChannel_IgnoresError ==
  /\ user.pc = "channel"
  /\ user' = [user EXCEPT !.pc = "run"]
  /\ ares_channel' = [ares_channel EXCEPT !.refs = {"loop"}]
  /\ UNCHANGED <<cares1_34, env, facade, interests, poller, quit,
                 pending_write, queries, loop, chan, ret, hist>>

\* EventLoop::new: let mut ares_channel = Channel::with_options(options)?;
\* then the EventLoop value holds the channel.
NewChannel ==
  /\ user.pc = "channel"
  /\ IF env.fail = "channel"
     THEN /\ user' = [user EXCEPT !.pc = "failed",
                                  !.new = ErrorFrom("c_ares::Error")]
          /\ UNCHANGED ares_channel
     ELSE /\ user' = [user EXCEPT !.pc = "run"]
          /\ ares_channel' = [ares_channel EXCEPT !.refs = {"loop"}]
  /\ UNCHANGED <<cares1_34, env, facade, interests, poller, quit,
                 pending_write, queries, loop, chan, ret, hist>>

\* Mutant: run borrows the event loop instead of consuming it, so that it
\* can be run again.
RunLoop_Borrows ==
  /\ user.pc = "run"
  /\ ares_channel' = [ares_channel EXCEPT !.refs = {"resolver", "loop"}]
  /\ loop' = [loop EXCEPT !.pc = "wait"]
  /\ user' = [user EXCEPT !.alive = TRUE, !.new = "Ok"]
  /\ UNCHANGED <<cares1_34, env, facade, interests, poller, quit,
                 pending_write, queries, chan, ret, hist>>

\* Resolver::with_options: clone the channel, event_loop.run() spawns the
\* loop thread and returns the stopper; Ok(resolver), which the blocking
\* and the future facade wrap.
RunLoop ==
  /\ user.pc = "run"
  /\ ares_channel' = [ares_channel EXCEPT !.refs = {"resolver", "loop"}]
  /\ loop' = [loop EXCEPT !.pc = "wait"]
  /\ user' = [user EXCEPT !.pc = "idle", !.alive = TRUE, !.new = "Ok"]
  /\ UNCHANGED <<cares1_34, env, facade, interests, poller, quit,
                 pending_write, queries, chan, ret, hist>>

\* -------------------------------------------------------- the channel mutex
\* The steps above take the mutex, call the engine and release the mutex in
\* one step.  Here the lock is a step of its own, and several threads share
\* the Resolver.
LoopThread == 0
Threads == {LoopThread} \cup Callers

\* Mutant: a lock that is granted while another thread holds it.
Lock_NoExclusion(t) ==
  ares_channel' = [ares_channel EXCEPT !.lock = {t}, !.inside = @ \cup {t}]

\* self.ares_channel.lock().unwrap(): granted when no thread holds the
\* mutex; the call into the engine follows on the guard.
Lock(t) ==
  /\ ares_channel.lock = {}
  /\ ares_channel' = [ares_channel EXCEPT !.lock = {t}, !.inside = @ \cup {t}]

\* The loop thread takes the mutex for its flush or its process call.
LoopLock ==
  /\ loop.pc \in {"flush", "handle"}
  /\ LoopThread \notin ares_channel.inside
  /\ Lock(LoopThread)
  /\ UNCHANGED <<cares1_34, env, facade, interests, poller, quit,
                 pending_write, queries, loop, user, chan, ret, hist>>

LockedFlush == LoopThread \in ares_channel.inside /\ LoopFlush
LockedProcessFds == LoopThread \in ares_channel.inside /\ LoopProcessFds
LockedProcessFd == LoopThread \in ares_channel.inside /\ LoopProcessFd
\* Mutant: the loop thread processes timeouts without the channel mutex.
LockedProcessTimeouts_Unlocked == LoopProcessTimeouts

LockedProcessTimeouts ==
  LoopThread \in ares_channel.inside /\ LoopProcessTimeouts

\* Mutant: the loop thread takes the registry mutex before its process
\* call and keeps it until the end of the re-arm pass.
LoopLockInterests_BeforeProcess ==
  /\ loop.pc \in {"handle", "rearm"}
  /\ LoopThread \notin ares_channel.inside
  /\ ~loop.interests_guard
  /\ loop' = [loop EXCEPT !.interests_guard = TRUE]
  /\ UNCHANGED <<cares1_34, env, facade, interests, poller, quit,
                 pending_write, ares_channel, queries, user, chan, ret, hist>>

\* let interests = self.interests.lock().unwrap(): the loop thread takes
\* the registry mutex for its re-arm pass ...
LoopLockInterests ==
  /\ loop.pc = "rearm"
  /\ ~loop.interests_guard
  /\ loop' = [loop EXCEPT !.interests_guard = TRUE]
  /\ UNCHANGED <<cares1_34, env, facade, interests, poller, quit,
                 pending_write, ares_channel, queries, user, chan, ret, hist>>

\* ... and releases it at the end of the block.
LockedRearm == loop.interests_guard /\ LoopRearm

\* The socket-state callback takes the registry mutex: while the loop
\* thread holds it, a call made by another thread gets no further than
\* the callback.
CallbackUpdates == IF loop.interests_guard THEN {<<>>} ELSE Updates

\* The methods of the facade that go to the channel: the query methods,
\* cancel, the configuration methods (reinit, set_servers, set_local_ipv4,
\* ...) and, on the Resolver with c-ares >= 1.27, queue_wait_empty.
Methods ==
  IF facade = "raw" THEN {"query", "cancel", "config", "queue_wait_empty"}
  ELSE {"query", "config"}

Reserved == { user.calls[c].q : c \in Callers }

\* A thread that shares the Resolver calls one of its methods.
CallerCall(c) ==
  /\ user.pc = "idle"
  /\ user.alive
  /\ user.calls[c].pc = "out"
  /\ \E m \in Methods :
       /\ m = "query" => Unissued \ Reserved # {}
       /\ user' = [user EXCEPT !.calls[c] =
            [pc |-> "lock", op |-> m,
             q |-> IF m = "query"
                   THEN CHOOSE x \in Unissued \ Reserved :
                          \A y \in Unissued \ Reserved : x <= y
                   ELSE 0]]
  /\ UNCHANGED <<cares1_34, env, facade, interests, poller, quit,
                 pending_write, ares_channel, queries, loop, chan, ret, hist>>

\* ... which takes the mutex ...
CallerLock(c) ==
  /\ user.calls[c].pc = "lock"
  /\ Lock(c)
  /\ user' = [user EXCEPT !.calls[c].pc = "inside"]
  /\ UNCHANGED <<cares1_34, env, facade, interests, poller, quit,
                 pending_write, queries, loop, chan, ret, hist>>

\* ... and calls the engine: a query method (BlockingResolver then waits
\* in rx.recv()),
CallerQuery(c) ==
  /\ user.calls[c].pc = "inside"
  /\ user.calls[c].op = "query"
  /\ LET q == user.calls[c].q
     IN  /\ \E sync \in {"no"} \cup EngineOutcomes, upd \in CallbackUpdates,
               pw \in PendingWriteChoices :
               EngineCall("caller",
                          [queries EXCEPT ![q].st = "inflight",
                                          ![q].status = "unit"],
                          [chan EXCEPT ![q] = IF facade = "raw" THEN "none"
                                              ELSE "empty"],
                          IF sync = "no" THEN {} ELSE {q},
                          [x \in Queries |-> sync], upd, pw)
         /\ user' = [user EXCEPT !.calls[c] =
                       IF facade = "blocking"
                       THEN [pc |-> "recv", op |-> "query", q |-> q]
                       ELSE NoCall]
  /\ UNCHANGED <<cares1_34, env, facade, quit, loop, ret, hist>>

\* rx.recv().unwrap() of that thread,
CallerRecv(c) ==
  /\ user.calls[c].pc = "recv"
  /\ chan[user.calls[c].q] \in Outcomes
  /\ ret' = [ret EXCEPT ![user.calls[c].q] = chan[user.calls[c].q]]
  /\ chan' = [chan EXCEPT ![user.calls[c].q] = "taken"]
  /\ user' = [user EXCEPT !.calls[c] = NoCall]
  /\ UNCHANGED <<cares1_34, env, facade, interests, poller, quit,
                 pending_write, ares_channel, queries, loop, hist>>

\* cancel,
CallerCancel(c) ==
  /\ user.calls[c].pc = "inside"
  /\ user.calls[c].op = "cancel"
  /\ \E upd \in CallbackUpdates, pw \in PendingWriteChoices :
       EngineCall("caller", queries, chan, InFlight,
                  [q \in Queries |-> "ECANCELLED"], upd, pw)
  /\ hist' = [hist EXCEPT !.cancels = 1 - @]
  /\ user' = [user EXCEPT !.calls[c] = NoCall]
  /\ UNCHANGED <<cares1_34, env, facade, quit, loop, ret>>

\* a configuration method, which completes no query,
CallerConfig(c) ==
  /\ user.calls[c].pc = "inside"
  /\ user.calls[c].op = "config"
  /\ \E upd \in CallbackUpdates :
       EngineCall("caller", queries, chan, {},
                  [q \in Queries |-> "none"], upd, FALSE)
  /\ user' = [user EXCEPT !.calls[c] = NoCall]
  /\ UNCHANGED <<cares1_34, env, facade, quit, loop, ret, hist>>

\* or queue_wait_empty(timeout_ms), which returns when no query is in the
\* engine's queue or when the timeout has expired (never, with -1).
QueueWaiting(c) ==
  /\ user.calls[c].pc = "inside"
  /\ user.calls[c].op = "queue_wait_empty"
  /\ InFlight # {}

CallerQueueWaitEmpty(c) ==
  /\ user.calls[c].pc = "inside"
  /\ user.calls[c].op = "queue_wait_empty"
  /\ \E timeout \in BOOLEAN : InFlight = {} \/ timeout
  /\ EngineCall("caller", queries, chan, {}, [q \in Queries |-> "none"],
                <<>>, FALSE)
  /\ user' = [user EXCEPT !.calls[c] = NoCall]
  /\ UNCHANGED <<cares1_34, env, facade, quit, loop, ret, hist>>

\* The facade can go out of scope only when no thread borrows it.
LockDropFacade ==
  /\ \A c \in Callers : user.calls[c].pc = "out"
  /\ UserDropFacade

\* ---------------------------------------------------------- specifications
\* The event loop with an engine that uses sockets and pending writes,
\* driven through the callback Resolver.
InitLoop ==
  /\ Init
  /\ facade = "raw"
  /\ env = [sockets |-> Sockets, pending |-> TRUE,
            queries |-> 1..MaxLoopQueries, dnsrec |-> FALSE, fail |-> "none"]

NextLoop ==
  \/ LoopWait \/ LoopQuit \/ LoopInterrupted \/ LoopPollFailed
  \/ LoopProceed \/ LoopFlush \/ LoopProcessFds \/ LoopProcessFd
  \/ LoopProcessTimeouts \/ LoopRearm
  \/ UserQuery \/ UserCancel \/ UserDropFacade
  \/ StopperStore \/ StopperNotify

SpecLoop == InitLoop /\ [][NextLoop]_vars

\* The three facades over the event loop.  Completions do not depend on
\* which sockets are ready (the engine also completes queries on its own
\* timeouts), so socket interest is left out here: the engine reports none.
InitFacade ==
  /\ Init
  /\ env = [sockets |-> {}, pending |-> FALSE, queries |-> Queries,
            dnsrec |-> TRUE, fail |-> "none"]

NextFacade ==
  \/ LoopWait \/ LoopQuit \/ LoopInterrupted \/ LoopPollFailed
  \/ LoopProceed \/ LoopProcessFds \/ LoopProcessTimeouts \/ LoopRearm
  \/ UserQuery \/ UserRecv \/ UserCancel \/ UserDropFacade
  \/ \E q \in Queries : UserPoll(q)
  \/ \E q \in Queries : UserDropFuture(q)
  \/ StopperStore \/ StopperNotify

SpecFacade == InitFacade /\ [][NextFacade]_vars

\* Construction, and the facades over the loop it starts.
NextNew == NewPoller \/ NewChannel \/ RunLoop \/ NextFacade

SpecNew == InitNew /\ [][NextNew]_vars

\* The loop thread and the threads that share a Resolver or a
\* BlockingResolver, with the channel mutex as a step of its own.
InitLock ==
  /\ Init
  /\ facade \in {"raw", "blocking"}
  /\ env = [sockets |-> Sockets, pending |-> TRUE,
            queries |-> 1..MaxLoopQueries, dnsrec |-> FALSE, fail |-> "none"]

NextLock ==
  \/ LoopWait \/ LoopQuit \/ LoopInterrupted \/ LoopPollFailed
  \/ LoopProceed \/ LoopLock \/ LockedFlush \/ LockedProcessFds
  \/ LockedProcessFd \/ LockedProcessTimeouts
  \/ LoopLockInterests \/ LockedRearm
  \/ \E c \in Callers : CallerCall(c)
  \/ \E c \in Callers : CallerLock(c)
  \/ \E c \in Callers : CallerQuery(c)
  \/ \E c \in Callers : CallerRecv(c)
  \/ \E c \in Callers : CallerCancel(c)
  \/ \E c \in Callers : CallerConfig(c)
  \/ \E c \in Callers : CallerQueueWaitEmpty(c)
  \/ LockDropFacade \/ StopperStore \/ StopperNotify

SpecLock == InitLock /\ [][NextLock]_vars

\* The futures of a FutureResolver and their one-shots, with an engine that
\* calls each handler at some point, or drops it.
InitPoll ==
  /\ Init
  /\ facade = "future"
  /\ env = [sockets |-> {}, pending |-> FALSE, queries |-> Queries,
            dnsrec |-> FALSE, fail |-> "none"]

NextPoll ==
  \/ UserQuery
  \/ \E q \in Queries : EngineCompletes(q)
  \/ \E q \in Queries : EngineDropsHandler(q)
  \/ \E q \in Queries : FuturePoll(q)

SpecPoll == InitPoll /\ [][NextPoll]_vars

\* The fairness the threads and the engine provide: the loop thread keeps
\* running and its wait is not interrupted forever, the engine completes
\* every query it keeps being asked to process (its own timeouts see to
\* that), a caller blocked in recv runs once a value is there, and a drop
\* of the Resolver that has begun runs to its end.  Nothing obliges the
\* program to issue, cancel or drop anything.
LoopStep ==
  \/ LoopWait \/ LoopQuit \/ LoopInterrupted \/ LoopPollFailed
  \/ LoopProceed \/ LoopProcessFds \/ LoopProcessTimeouts \/ LoopRearm

LoopCompletes(q) ==
  /\ LoopProcessFds \/ LoopProcessTimeouts
  /\ queries[q].st = "inflight"
  /\ queries'[q].st = "done"

Fairness ==
  /\ WF_vars(LoopStep)
  /\ SF_vars(LoopWait /\ loop'.results = "ok")
  /\ \A q \in Queries : SF_vars(LoopCompletes(q))
  /\ WF_vars(UserRecv)
  /\ WF_vars(StopperStore \/ StopperNotify)

FairFacade == SpecFacade /\ Fairness

\* The event loop when nothing is owed to the wait's timeout: the loop
\* thread keeps running while it is not in its wait, a wait on a notified
\* poller returns, and a drop of the Resolver that has begun runs to its
\* end.  A wait on a poller that is not notified may last forever.
LoopCycle ==
  \/ LoopQuit \/ LoopInterrupted \/ LoopPollFailed \/ LoopProceed
  \/ LoopFlush \/ LoopProcessFds \/ LoopProcessFd \/ LoopProcessTimeouts
  \/ LoopRearm

FairStop ==
  /\ SpecLoop
  /\ WF_vars(LoopCycle)
  /\ WF_vars(LoopWait /\ poller.notified)
  /\ WF_vars(StopperStore \/ StopperNotify)

\* The same, and the wait on a notified poller is not interrupted by a
\* signal every time it is made.
FairWake ==
  /\ FairStop
  /\ SF_vars(LoopWait /\ poller.notified /\ loop'.results # "interrupted")

\* ------------------------------------------------------------------ claims
LoopStopped == loop.pc \in {"terminated", "panicked"}
ChannelDestroyed == ares_channel.refs = {}

C4_ReturnAfterHandler ==
  facade = "blocking" =>
    \A q \in Queries :
      (queries[q].st # "none" /\ user.q # q) =>
        (queries[q].fired = 1 /\ ret[q] # "none")

C4_Witness ==
  /\ facade = "blocking" /\ user.q = 0
  /\ queries[1].fired = 1 /\ ret[1] = "ok"

C6_KeepAlive ==
  (facade = "future" /\ (user.alive \/ user.futures # {}))
    => (~quit /\ ResolverAlive /\ hist.drops = 0 /\ ~ChannelDestroyed)

C6_Witness ==
  /\ facade = "future" /\ ~user.alive /\ user.futures = {2}
  /\ queries[1].st = "done" /\ ~quit

\* C7: a cancel call completes every query in flight with ECANCELLED, and
\* a query gets ECANCELLED only from a cancel call made while it was in
\* flight: queries issued later are not touched by it.
IsCancel == hist'.cancels # hist.cancels

C7_CancelInFlight ==
  [][\A q \in Queries :
       /\ (IsCancel /\ queries[q].st = "inflight")
            => (queries'[q].arg = "ECANCELLED" /\ queries'[q].fired = 1)
       /\ (IsCancel /\ queries[q].st # "inflight") => queries'[q] = queries[q]
       /\ (queries[q].arg # "ECANCELLED" /\ queries'[q].arg = "ECANCELLED")
            => (IsCancel /\ queries[q].st = "inflight")]_vars

C7_Witness ==
  /\ queries[1].arg = "ECANCELLED" /\ queries[2].st = "inflight"

\* C8: after FutureResolver::cancel no unresolved future of a query issued
\* before it stays pending: it is ready with ECANCELLED if the query was in
\* flight, and with the engine's result if it had already completed.
C8_CancelledFutureResolves ==
  [][(IsCancel /\ facade = "future") =>
       \A q \in user.futures :
         ret[q] = "none" =>
           /\ PollResult(chan'[q]) # "Pending"
           /\ PollResult(chan'[q]) = IF queries[q].st = "inflight"
                                     THEN "ECANCELLED" ELSE queries[q].arg]_vars

C8_Witness ==
  /\ facade = "future"
  /\ \E q \in user.futures : ret[q] = "ECANCELLED"

\* C9: the sources registered with the poller are exactly the sockets whose
\* last reported interest had a flag set, each with the flags of that
\* report.
C9_RegisteredIsLastUpdate ==
  \A s \in Sockets :
    /\ poller.sources[s].reg = ares_channel.view[s].has
    /\ poller.sources[s].r = ares_channel.view[s].r
    /\ poller.sources[s].w = ares_channel.view[s].w

C9_Witness ==
  \E s \in Sockets :
    /\ poller.sources[s].reg /\ ~poller.sources[s].r /\ poller.sources[s].w
    /\ loop.pc = "wait" /\ queries[1].st = "done"

\* C10: a socket is registered with the poller iff it has an entry in the
\* registry, no entry has both flags false, and no poller call has failed.
C10_RegistryMatchesPoller ==
  /\ ~poller.failed
  /\ \A s \in Sockets :
       /\ poller.sources[s].reg = interests[s].has
       /\ interests[s].has => (interests[s].r \/ interests[s].w)

C10_Witness ==
  \E s \in Sockets :
    /\ interests[s].has /\ ~poller.sources[s].armed
    /\ loop.pc = "rearm"

\* C11: per socket the callback's poller calls follow add, modify*,
\* (delete, add, modify*)*: an update with a flag set issues exactly one add
\* on an unregistered socket and exactly one modify on a registered one; an
\* update with both flags false issues exactly one delete on a registered
\* socket and no call on an unregistered one.
OpsOn(p, socket) ==
  LET on == SelectSeq(p.ops, LAMBDA o : o[2] = socket)
  IN  [i \in 1..Len(on) |-> on[i][1]]

IsRearm == loop.pc = "rearm" /\ loop'.pc = "wait"
IsWait == loop.pc = "wait" /\ loop'.pc = "check"

C11_CallbackOps ==
  [][(~IsRearm /\ ~IsWait) =>
       /\ poller' = poller => ares_channel'.view = ares_channel.view
       /\ poller' # poller =>
            \A s \in Sockets :
              LET o   == OpsOn(poller', s)
                  was == poller.sources[s].reg
                  now == ares_channel'.view[s]
              IN  /\ (~was /\ now.has) => o = <<"add">>
                  /\ (was /\ now.has) =>
                       /\ o \in {<<>>, <<"modify">>}
                       /\ now # ares_channel.view[s] => o = <<"modify">>
                  /\ (was /\ ~now.has) => o = <<"delete">>
                  /\ (~was /\ ~now.has) => o = <<>>]_vars

C11_Witness ==
  /\ loop.pc = "rearm"
  /\ poller.ops = << <<"modify", 1>> >>
  /\ poller.sources[1].r /\ poller.sources[1].w

\* C12: in a wake cycle whose wait reported no ready socket the loop thread
\* still calls the engine's process entry point, so the engine can complete
\* any query in flight there; hence a BlockingResolver call whose sockets
\* never become ready returns the engine's own result unless the loop has
\* stopped.
C12_TimeoutsProcessed ==
  /\ [](\A q \in Queries :
          (loop.pc = "handle" /\ loop.events = {}
             /\ queries[q].st = "inflight") => ENABLED LoopCompletes(q))
  /\ \A q \in Queries :
       (facade = "blocking" /\ user.pc = "recv" /\ user.q = q)
         ~> (ret[q] \in EngineOutcomes \/ LoopStopped)

C12_Witness ==
  /\ facade = "blocking" /\ ~cares1_34
  /\ loop.pc = "rearm" /\ loop.events = {}
  /\ queries[1].arg = "err" /\ ret[1] = "err"

C14_FacadeDeliversEngineResult ==
  \A q \in Queries :
    /\ ret[q] # "none" =>
         (facade # "raw" /\ queries[q].fired = 1 /\ ret[q] = queries[q].arg)
    /\ (facade # "raw" /\ queries[q].fired = 1) =>
         \/ chan[q] = queries[q].arg /\ ret[q] = "none"
         \/ chan[q] = "taken" /\ ret[q] = queries[q].arg
         \/ chan[q] = "closed" /\ facade = "future" /\ q \notin user.futures
    /\ (facade = "blocking" /\ queries[q].fired = 1 /\ user.q # q) =>
         ret[q] = queries[q].arg

C14_Witness ==
  /\ facade = "future"
  /\ queries[1].arg = "err" /\ ret[1] = "err"
  /\ queries[2].arg = "ok" /\ chan[2] = "ok"

\* C15: construction returns an Io error exactly when the poller cannot be
\* created and an Ares error exactly when the channel cannot be
\* constructed; when either fails no loop thread is ever spawned and no
\* resolver value exists.
C15_ConstructionFails ==
  /\ user.new = "Io" <=> (env.fail = "poller" /\ user.pc = "failed")
  /\ user.new = "Ares" <=> (env.fail = "channel" /\ user.pc = "failed")
  /\ user.new = "Ok" => env.fail = "none"
  /\ env.fail # "none" =>
       /\ loop.pc = "unspawned"
       /\ ~user.alive
       /\ "resolver" \notin ares_channel.refs
       /\ user.pc \in {"with_options", "channel", "failed"}

C15_Witness ==
  /\ facade = "future" /\ env.fail = "channel"
  /\ user.pc = "failed" /\ user.new = "Ares"

\* C16 as stated: the re-arm pass issues a modify for every socket that has
\* an entry in the registry, reported in this cycle or not.
C16_RearmsEveryEntry ==
  [][IsRearm =>
       \A s \in Sockets :
         interests[s].has => OpsOn(poller', s) = <<"modify">>]_vars

\* C16 amended: the re-arm pass issues exactly one modify, with the
\* interest recorded in the registry, for every socket that was reported in
\* this cycle and still has an entry, and no call for any other socket.
C16_RearmsReportedEntries ==
  [][IsRearm =>
       \A s \in Sockets :
         IF interests[s].has /\ (\E e \in loop.events : e.key = s)
         THEN /\ OpsOn(poller', s) = <<"modify">>
              /\ poller'.sources[s] = Source(interests[s].r, interests[s].w)
         ELSE /\ OpsOn(poller', s) = <<>>
              /\ poller'.sources[s] = poller.sources[s]]_vars

C16_Witness ==
  /\ loop.pc = "wait" /\ poller.ops = <<>>
  /\ interests[1].has /\ poller.sources[1].armed
  /\ queries[1].st = "inflight" /\ hist.cancels = 0 /\ hist.drops = 0

\* C17: whenever the loop thread is at its wait, every socket that has an
\* entry in the registry is registered and armed in the poller with the
\* interest recorded in the registry.
C17_ArmedAtWait ==
  loop.pc = "wait" =>
    \A s \in Sockets :
      interests[s].has =>
        poller.sources[s] = Source(interests[s].r, interests[s].w)

C17_Witness ==
  /\ loop.pc = "wait"
  /\ poller.ops = << <<"modify", 1>> >>
  /\ interests[1] = Interest(TRUE, FALSE)
  /\ poller.sources[1] = Source(TRUE, FALSE)

\* C18: in a wake cycle the loop thread takes the pending-write flag and,
\* if it was set, flushes before it hands any readiness to the engine; it
\* enters the re-arm pass only from readiness processing, with no event of
\* the cycle left to process; and after the pass every socket reported in
\* the cycle has the registration the engine last asked for.
C18_CycleOrder ==
  [][/\ (loop.pc = "check" /\ loop'.pc \in {"flush", "handle", "rearm"}) =>
          /\ loop'.pc = IF cares1_34 /\ pending_write THEN "flush" ELSE "handle"
          /\ loop'.todo = IF cares1_34 THEN {} ELSE loop.events
     /\ (loop.pc = "flush" /\ loop' # loop) =>
          (loop'.pc = "handle" /\ loop'.events = loop.events)
     /\ (loop.pc # "rearm" /\ loop'.pc = "rearm") =>
          (loop.pc = "handle" /\ loop'.todo = {})
     /\ IsRearm =>
          \A s \in Sockets :
            (\E e \in loop.events : e.key = s) =>
              poller'.sources[s] =
                IF ares_channel.view[s].has
                THEN Source(ares_channel.view[s].r, ares_channel.view[s].w)
                ELSE NoSource]_vars

C18_Witness ==
  /\ cares1_34 /\ ~pending_write
  /\ loop.pc = "handle" /\ loop.events # {}
  /\ poller.ops = << <<"modify", 1>> >>

\* C19: the first thing the loop thread does after a wait returns is to
\* read quit; if it is set the thread terminates whatever the wait
\* returned, discarding its events: it flushes nothing, processes nothing
\* and re-arms nothing (the only engine activity left is the channel's
\* teardown if the thread holds the last reference), and it stays
\* terminated.
C19_QuitCheckedFirst ==
  [][/\ (loop.pc = "check" /\ loop' # loop) =>
          /\ quit <=> loop'.pc = "terminated"
          /\ quit =>
               /\ loop'.events = {} /\ loop'.todo = {}
               /\ pending_write' = pending_write
               /\ \A s \in Sockets :
                    /\ OpsOn(poller', s) \in {<<>>, <<"delete">>}
                    /\ poller'.sources[s] \in {poller.sources[s], NoSource}
               /\ \A q \in Queries :
                    \/ queries'[q] = queries[q]
                    \/ /\ queries[q].st = "inflight"
                       /\ queries'[q].arg = "EDESTRUCTION"
                       /\ ares_channel'.refs = {}
     /\ loop.pc = "terminated" =>
          /\ loop' = loop
          /\ poller'.sources = poller.sources
          /\ UNCHANGED <<interests, pending_write, queries>>]_vars

C19_Witness ==
  /\ loop.pc = "terminated" /\ quit
  /\ poller.ops = << <<"delete", 1>> >>
  /\ queries[1].arg = "EDESTRUCTION"

\* C20: the stopper's drop stores quit before it notifies the poller; a
\* notification is consumed only by a return of the wait; once quit is set
\* the loop thread starts no further cycle; and from the drop on the loop
\* thread eventually stops even if no wait ever times out.
C20_StopWakesLoop ==
  /\ [](user.pc = "notify" => quit)
  /\ [][(poller.notified /\ ~poller'.notified) => IsWait]_vars
  /\ [][(quit /\ loop.pc = "check" /\ loop' # loop)
          => loop'.pc = "terminated"]_vars
  /\ (user.pc = "store") ~> LoopStopped

C20_Witness ==
  /\ hist.drops = 1 /\ user.pc = "idle" /\ quit
  /\ loop.pc = "terminated" /\ ~poller.notified

\* C21: no two threads are inside a call into the engine channel at the
\* same time, and the thread that is inside holds the mutex.
C21_Serialized ==
  /\ Cardinality(ares_channel.inside) <= 1
  /\ ares_channel.inside = ares_channel.lock

\* The loop thread and a caller wait for the mutex while another caller is
\* inside the engine.
C21_Witness ==
  /\ ares_channel.inside = {1}
  /\ user.calls[2].pc = "lock"
  /\ loop.pc = "handle"
  /\ InFlight # {}

\* A thread in a blocking wait: the loop thread in poller.wait, a
\* BlockingResolver call in rx.recv, a caller in queue_wait_empty while
\* queries are in the engine's queue.
Waiting(t) ==
  IF t = LoopThread THEN loop.pc = "wait"
  ELSE user.calls[t].pc = "recv" \/ QueueWaiting(t)

\* C22: the engine-channel mutex is never held across a blocking wait: no
\* thread that is in the loop's poller wait, in a BlockingResolver's
\* receive or in a waiting Resolver method such as queue_wait_empty holds
\* the mutex.
C22_NotHeldAcrossWait ==
  \A t \in Threads : Waiting(t) => t \notin ares_channel.lock

\* C23 as stated: every completion handler that has been invoked was
\* invoked from the loop thread.
C23_OnLoopThread ==
  \A q \in Queries : queries[q].fired > 0 => queries[q].by = "loop"

\* A step of the loop thread: each one moves its position.
LoopMoves == loop' # loop

\* C23 amended: a handler is invoked from the loop thread when the engine
\* completes the query in the loop's flush or readiness and timeout
\* processing; the handlers fired by cancel() are invoked on the thread
\* that calls cancel, the handler of a query the engine completes within
\* the issuing call on the issuing thread, and the handlers fired by the
\* channel's teardown on the thread that releases the last reference to
\* the channel (the loop thread when it stops, else the thread that drops
\* the resolver).
C23_HandlerThread ==
  [][\A q \in Queries :
       (queries'[q].fired = queries[q].fired + 1) =>
         CASE queries'[q].arg = "ECANCELLED" ->
                queries'[q].by = "caller" /\ ~LoopMoves
           [] queries'[q].arg = "EDESTRUCTION" ->
                /\ ares_channel'.refs = {}
                /\ queries'[q].by = IF LoopMoves THEN "loop" ELSE "caller"
           [] OTHER ->
                IF queries[q].st = "none"
                THEN queries'[q].by = "caller" /\ ~LoopMoves
                ELSE queries'[q].by = "loop" /\ LoopMoves]_vars

\* One handler ran on the caller's thread in cancel, the other on the loop
\* thread.
C23_Witness ==
  /\ queries[1].by = "caller" /\ queries[1].arg = "ECANCELLED"
  /\ queries[2].by = "loop" /\ queries[2].arg = "ok"

\* C24: no pending-write request is lost.  A step that sets the flag also
\* notifies the poller, and while the flag is set a notification is
\* pending or the loop thread is between its wait and its test of the flag
\* (or has stopped); the flag is cleared only by the loop thread's swap,
\* once in an iteration, and the flush is entered exactly when the swap
\* found the flag set; and once the flag is set the loop thread reaches the
\* flush unless it stops first.
C24_PendingWriteNotLost ==
  /\ [](pending_write =>
          cares1_34 /\ (poller.notified \/ loop.pc = "check" \/ LoopStopped))
  /\ [][(~pending_write /\ pending_write') => poller'.notified]_vars
  /\ [][(pending_write /\ ~pending_write')
          <=> (loop.pc = "check" /\ loop'.pc = "flush")]_vars
  /\ [][(loop.pc # "flush" /\ loop'.pc = "flush")
          => (cares1_34 /\ pending_write /\ ~quit)]_vars
  /\ pending_write ~> (loop.pc = "flush" \/ LoopStopped)

\* The loop thread has found the flag set during a query call, has cleared
\* it and is about to flush.
C24_Witness ==
  /\ loop.pc = "flush"
  /\ ~pending_write
  /\ ~quit
  /\ queries[1].st = "inflight"

\* The process calls of this cycle that name socket s.
ToldOf(s) ==
  { i \in DOMAIN loop.told : s \in loop.told[i].read \cup loop.told[i].write }

\* C25: when readiness processing is over the engine has been told exactly
\* the reported readiness: each reported socket in one process call, as
\* ready to read iff its event is readable and as ready to write iff it is
\* writable, no socket that was not reported, and with no event at all
\* exactly one call that names no socket.
C25_ToldReportedReadiness ==
  loop.pc = "rearm" =>
    /\ \A e \in loop.events :
         /\ Cardinality(ToldOf(e.key)) = 1
         /\ \A i \in ToldOf(e.key) :
              /\ (e.key \in loop.told[i].read) = e.readable
              /\ (e.key \in loop.told[i].write) = e.writable
    /\ \A s \in Sockets : ToldOf(s) # {} => \E e \in loop.events : e.key = s
    /\ \A i \in DOMAIN loop.told :
         /\ loop.told[i].f = IF cares1_34 THEN "process_fds" ELSE "process_fd"
         /\ loop.told[i].read \cup loop.told[i].write \subseteq Sockets
    /\ Len(loop.told) =
         IF cares1_34 \/ loop.events = {} THEN 1 ELSE Cardinality(loop.events)

\* A wait reported a socket as writable only and the engine was told so
\* with process_fd(SOCKET_BAD, socket).
C25_Witness ==
  /\ ~cares1_34
  /\ loop.pc = "rearm"
  /\ loop.events = {Event(1, FALSE, TRUE)}
  /\ loop.told = << process_fd(SOCKET_BAD, 1) >>

\* The engine tells the callback of a new interest in socket s.
Informed(s) ==
  /\ ares_channel'.view[s] # ares_channel.view[s]
  /\ ares_channel'.view[s].has

\* C26 as stated: each time the callback is informed of a new interest the
\* poller is woken.
C26_CallbackWakes ==
  [][(\E s \in Sockets : Informed(s)) => poller'.notified]_vars

\* C26 amended: each time the callback is informed of a new interest it
\* updates the registry and the poller registration, by one add or one
\* modify, and it does not wake the poller: a notification is posted in
\* that step only by the pending-write callback.
C26_CallbackUpdatesOnly ==
  [][\A s \in Sockets : Informed(s) =>
       /\ interests'[s] = ares_channel'.view[s]
       /\ poller'.sources[s] = Source(interests'[s].r, interests'[s].w)
       /\ OpsOn(poller', s) \in {<<"add">>, <<"modify">>}
       /\ (poller'.notified # poller.notified) =>
            (cares1_34 /\ pending_write')]_vars

\* The callback has added a socket while the loop thread is in its wait,
\* and no notification is pending.
C26_Witness ==
  /\ loop.pc = "wait"
  /\ poller.ops = << <<"add", 1>> >>
  /\ interests[1].has
  /\ ~poller.notified
  /\ ~quit

\* C27: a wait that fails with an interrupted error reports no event and
\* leaves the registrations alone, and the loop thread, finding quit not
\* set, goes back to its wait with nothing else done: no flush (the
\* pending-write flag is left as it is), no process call, no re-arm, the
\* registry and the poller registrations unchanged.
C27_InterruptedRetries ==
  [][/\ (IsWait /\ loop'.results = "interrupted") =>
          /\ loop'.events = {}
          /\ poller'.sources = poller.sources
          /\ poller'.notified = poller.notified
          /\ UNCHANGED <<interests, pending_write, ares_channel, queries>>
     /\ (loop.pc = "check" /\ loop.results = "interrupted" /\ ~quit
           /\ LoopMoves) =>
          /\ loop'.pc = "wait"
          /\ loop'.told = <<>>
          /\ UNCHANGED <<interests, poller, pending_write, ares_channel,
                         queries, chan, quit>>]_vars

\* A wait has failed with an interrupted error while a pending write is
\* flagged, a socket is registered and a query is in flight.
C27_Witness ==
  /\ loop.pc = "check"
  /\ loop.results = "interrupted"
  /\ ~quit
  /\ pending_write
  /\ interests[1].has
  /\ InFlight # {}

IssuedAfterPanic(q) == hist.panicked /\ q \in Issued \ hist.atPanic

\* C29 as stated: a request issued after the loop thread died of a failed
\* wait never completes while the resolver is alive.
C29_NeverCompletes ==
  \A q \in Queries :
    (IssuedAfterPanic(q) /\ ResolverAlive) => queries[q].fired = 0

\* C29 amended: the handler of a request issued after the loop thread died
\* of a failed wait is never invoked by the loop thread, that is by
\* readiness or timeout processing; it is invoked only on a caller's
\* thread: by cancel(), by the engine within the issuing call, or by the
\* channel's teardown when the resolver is dropped.
C29_NotCompletedByLoop ==
  \A q \in Queries :
    (IssuedAfterPanic(q) /\ queries[q].fired > 0) =>
      /\ queries[q].by = "caller"
      /\ queries[q].arg = "EDESTRUCTION" => ~ResolverAlive

\* After the panic two requests were issued on the live resolver: one was
\* completed by cancel(), the other is still in flight.
C29_Witness ==
  /\ loop.pc = "panicked"
  /\ ResolverAlive
  /\ IssuedAfterPanic(1) /\ queries[1].arg = "ECANCELLED"
  /\ IssuedAfterPanic(2) /\ queries[2].st = "inflight"

\* C30: a poll of a CAresFuture returns Pending while its one-shot is
\* neither fulfilled nor abandoned, Ready with the sent result once the
\* handler has sent one, and Ready(Err(ECANCELLED)) once the sender has
\* been dropped unsent; it never panics, and then does not stay Pending.
C30_PollContract ==
  [][\A q \in Queries :
       (ret'[q] # ret[q] \/ (chan'[q] # chan[q] /\ chan'[q] = "taken")) =>
         /\ chan[q] = "empty" => (ret'[q] = "Pending" /\ chan'[q] = "empty")
         /\ chan[q] \in Outcomes =>
              (ret'[q] = chan[q] /\ ret'[q] = queries[q].arg)
         /\ chan[q] = "dropped" =>
              (ret'[q] = "ECANCELLED" /\ queries[q].fired = 0)
         /\ chan[q] \in {"empty", "dropped"} \cup Outcomes]_vars

\* One future was polled while nothing had been sent and was then
\* fulfilled; the other lost its sender and resolved to ECANCELLED.
C30_Witness ==
  /\ ret[1] = "Pending" /\ chan[1] = "err"
  /\ ret[2] = "ECANCELLED" /\ queries[2].fired = 0

\* A step that drops the future of query q.
FutureDropped(q) == q \in user.futures /\ q \notin user'.futures

C32_OneLoopThread ==
  /\ [][(loop.pc = "unspawned" /\ loop'.pc # "unspawned") =>
          /\ user.pc = "run" /\ user'.pc # "run"
          /\ loop'.pc = "wait"
          /\ ares_channel.refs = {"loop"}]_vars
  /\ [][loop.pc # "unspawned" =>
          /\ loop'.pc # "unspawned"
          /\ user'.pc \notin {"with_options", "channel", "run"}]_vars
  /\ [][loop.pc \in {"terminated", "panicked"} => loop' = loop]_vars
  /\ [][loop'.told # loop.told =>
          (loop.pc \in {"handle", "rearm"} /\ user' = user)]_vars
  /\ [][\A q \in Queries :
          (queries[q].st = "inflight" /\ queries'[q].st = "done"
             /\ queries'[q].by = "caller")
            => (queries'[q].arg \in {"ECANCELLED", "EDESTRUCTION"}
                  /\ loop' = loop)]_vars

\* The loop thread spawned by run has made a process call that completed
\* one query, and a caller thread has completed another by cancel.
C32_Witness ==
  /\ user.new = "Ok"
  /\ loop.told # <<>>
  /\ \E q \in Queries : queries[q].by = "loop"
  /\ \E q \in Queries :
       queries[q].by = "caller" /\ queries[q].arg = "ECANCELLED"

\* C33: the quit flag is false from construction until the stop handle is
\* dropped, which happens when the Resolver is dropped; it changes only
\* from false to true, in the stop handle's drop; it is stored at most
\* once; and it is never reset to false.
C33_QuitMonotone ==
  /\ [](quit => (hist.drops = 1 /\ ~ResolverAlive
                   /\ user.pc \notin {"with_options", "channel", "run",
                                       "failed", "store"}))
  /\ []((hist.drops = 0 \/ user.pc = "store") => ~quit)
  /\ [][quit => quit']_vars
  /\ [][quit' # quit => (user.pc = "store" /\ user'.pc = "notify")]_vars
  /\ [][(user.pc # "store" /\ user'.pc = "store")
          => (hist.drops = 0 /\ hist'.drops = 1)]_vars

\* The flag has been set, the loop thread has seen it and ended, and the
\* flag is still set.
C33_Witness ==
  /\ user.new = "Ok"
  /\ quit
  /\ loop.pc = "terminated"
  /\ user.pc = "idle"

\* The threads that hold the registry mutex: the loop thread in its re-arm
\* block; a callback holds it only within the engine call that makes it.
InterestsHolders == IF loop.interests_guard THEN {LoopThread} ELSE {}

\* The thread is at a lock() of the engine-channel mutex.
WantsChannel(t) ==
  IF t = LoopThread
  THEN loop.pc \in {"flush", "handle"} /\ LoopThread \notin ares_channel.inside
  ELSE user.calls[t].pc = "lock"

\* The threads a thread may be waiting for: the holder of the channel
\* mutex when it is at that lock(), the holder of the registry mutex when
\* it is inside an engine call, which can run the socket-state callback.
WaitsFor(t) ==
  (IF WantsChannel(t) THEN ares_channel.lock ELSE {}) \cup
  (IF t \in ares_channel.inside THEN InterestsHolders ELSE {})

WaitsForVia(t) == UNION { WaitsFor(u) : u \in WaitsFor(t) }

\* C34: the two mutexes cannot deadlock: the registry mutex is taken
\* either by a thread that holds no mutex (the re-arm pass, the teardown of
\* the channel) or by the socket-state callback inside an engine call,
\* under the engine-channel mutex; no thread takes the engine-channel mutex
\* while it holds the registry mutex; and no thread waits for a thread
\* that waits for it, directly or through the third.
C34_LockOrder ==
  /\ [](loop.interests_guard =>
          (loop.pc = "rearm" /\ LoopThread \notin ares_channel.lock))
  /\ [][\A t \in Threads :
          (t \in ares_channel'.lock \ ares_channel.lock)
            => (t \notin InterestsHolders /\ WantsChannel(t))]_vars
  /\ [][(~loop.interests_guard /\ loop'.interests_guard)
          => (ares_channel' = ares_channel
                /\ LoopThread \notin ares_channel.lock)]_vars
  /\ [][interests' # interests =>
          /\ ~loop.interests_guard
          /\ ares_channel.lock # {} \/ ares_channel'.refs = {}]_vars
  /\ [](\A t \in Threads :
          /\ t \notin WaitsFor(t)
          /\ t \notin WaitsForVia(t)
          /\ t \notin UNION { WaitsFor(u) : u \in WaitsForVia(t) })

\* The loop thread holds the registry mutex in its re-arm pass while one
\* caller is inside an engine call, holding the channel mutex, and
\* another waits for that mutex.
C34_Witness ==
  /\ loop.interests_guard
  /\ ares_channel.lock = {1}
  /\ user.calls[2].pc = "lock"
  /\ WaitsFor(1) = {LoopThread} /\ WaitsFor(2) = {1}
  /\ WaitsFor(LoopThread) = {}

\* C35: the channel is destroyed once, by whichever of the Resolver and
\* the loop thread releases its reference last, so only after both have;
\* the socket-state callbacks of the destruction delete every registered
\* socket from the poller and leave the Interest Registry empty; and
\* after the destruction no call into the channel is made: no query is
\* issued, cancelled or completed, the loop thread makes no step, and the
\* registry does not change.
C35_DestroyedLast ==
  /\ [](ChannelDestroyed =>
          /\ ~ResolverAlive /\ hist.drops = 1
          /\ LoopStopped
          /\ InFlight = {}
          /\ \A s \in Sockets :
               ~interests[s].has /\ ~poller.sources[s].reg)
  /\ [][(~ChannelDestroyed /\ ChannelDestroyed') =>
          /\ Cardinality(ares_channel.refs) = 1
          /\ \A s \in Sockets :
               OpsOn(poller', s) =
                 IF poller.sources[s].reg THEN <<"delete">> ELSE <<>>]_vars
  /\ [][ChannelDestroyed =>
          /\ ares_channel' = ares_channel
          /\ queries' = queries
          /\ hist'.cancels = hist.cancels
          /\ interests' = interests
          /\ loop' = loop]_vars

\* The channel has been destroyed by the loop thread, the last to release
\* it, while a socket was registered: the registry and the poller are
\* empty and the in-flight query got the destroyed outcome.
C35_Witness ==
  /\ ChannelDestroyed
  /\ loop.pc = "terminated"
  /\ \E s \in Sockets : OpsOn(poller, s) = <<"delete">>
  /\ queries[1].arg = "EDESTRUCTION" /\ queries[1].by = "loop"

\* C36: the handler of a BlockingResolver call never blocks the thread
\* that runs it: it fires at most once, the channel of capacity 1 is empty
\* when it sends, so the value is in the channel when the handler
\* returns, be it on the loop thread while the caller is at its receive or
\* on the caller's own thread inside the issuing call; and the caller's
\* receive then returns that value.
C36_SendNeverBlocks ==
  /\ [][\A q \in Queries :
          (facade = "blocking" /\ queries'[q].fired # queries[q].fired) =>
            /\ queries[q].fired = 0 /\ queries'[q].fired = 1
            /\ chan[q] = IF queries[q].st = "none" THEN "none" ELSE "empty"
            /\ chan'[q] = queries'[q].arg
            /\ queries[q].st = "none" =>
                 (queries'[q].by = "caller" /\ user'.pc = "recv"
                    /\ user'.q = q)]_vars
  /\ \A q \in Queries :
       (facade = "blocking" /\ queries[q].fired = 1)
         ~> (ret[q] = queries[q].arg /\ user.q # q)

\* One BlockingResolver call was completed on the caller's own thread
\* inside the issuing call and has returned; the handler of the next has
\* run on the loop thread and its value waits in the channel for the
\* caller's receive.
C36_Witness ==
  /\ facade = "blocking"
  /\ queries[1].by = "caller" /\ ret[1] = queries[1].arg
  /\ queries[2].by = "loop" /\ chan[2] = queries[2].arg
  /\ user.pc = "recv" /\ user.q = 2

\* A step in which the handler of query q runs.
HandlerRuns(q) == queries'[q].fired # queries[q].fired

\* C37 as stated: whenever a completion handler runs, the thread running
\* it holds the engine-channel mutex.
C37_HandlerUnderMutex ==
  [][\A q \in Queries : HandlerRuns(q) => ares_channel.lock # {}]_vars

\* C37 amended: whenever a completion handler runs with an outcome other
\* than the channel's destruction, the thread running it holds the
\* engine-channel mutex: the loop thread inside its flush or process call,
\* or a caller thread inside cancel or a query-issuing call; a lock of the
\* mutex by that thread cannot be granted then.  A handler that runs with
\* the destroyed outcome runs in the teardown of the channel, when the
\* last reference is released and no thread holds the mutex.
C37_HandlerUnderMutexUnlessTeardown ==
  [][\A q \in Queries :
       HandlerRuns(q) =>
         IF queries'[q].arg = "EDESTRUCTION"
         THEN ares_channel'.refs = {} /\ ares_channel.lock = {}
         ELSE /\ Cardinality(ares_channel.lock) = 1
              /\ ares_channel.lock = ares_channel.inside
              /\ \A t \in ares_channel.lock :
                   /\ ~ENABLED Lock(t)
                   /\ IF t = LoopThread
                      THEN /\ queries'[q].by = "loop"
                           /\ loop.pc \in {"flush", "handle"}
                           /\ loop'.pc # loop.pc
                      ELSE /\ queries'[q].by = "caller"
                           /\ user.calls[t].pc = "inside"
                           /\ user.calls[t].op \in {"query", "cancel"}
                           /\ user'.calls[t].pc # "inside"]_vars

\* A handler has run on a caller's thread inside cancel, under the mutex,
\* while another caller waited for the mutex; the mutex is free again.
C37_Witness ==
  /\ queries[1].fired = 1 /\ queries[1].arg = "ECANCELLED"
  /\ queries[1].by = "caller"
  /\ user.calls[2].pc = "lock"
  /\ ares_channel.lock = {}
  /\ hist.cancels = 1

\* The sockets reported by the wait of this cycle.
Reported == { e.key : e \in loop.events }

\* C38: however the re-arm pass interleaves with the socket-state
\* callbacks that other threads' engine calls make, the registry does not
\* change while the pass holds its mutex, every modify the pass issues is
\* for a socket that is registered with the poller at that moment and
\* carries the interest the registry records at that moment, no poller
\* call fails, and a reported socket whose entry has been removed since
\* the wait returned gets no call.
C38_RearmSeesCurrentRegistry ==
  /\ [][loop.interests_guard =>
          (interests' = interests
             /\ (~IsRearm => poller'.sources = poller.sources))]_vars
  /\ [][IsRearm =>
          /\ loop.interests_guard
          /\ ~poller'.failed
          /\ \A s \in Sockets :
               /\ OpsOn(poller', s) # <<>> =>
                    /\ OpsOn(poller', s) = <<"modify">>
                    /\ poller.sources[s].reg /\ interests[s].has
                    /\ poller'.sources[s] =
                         Source(interests[s].r, interests[s].w)
               /\ (s \in Reported /\ ~interests[s].has) =>
                    (OpsOn(poller', s) = <<>>
                       /\ poller'.sources[s] = poller.sources[s]
                       /\ ~poller'.sources[s].reg)]_vars

\* The loop thread is about to re-arm, holding the registry mutex, after
\* a caller's cancel has removed the entry of the socket that the wait
\* of this cycle reported.
C38_Witness ==
  /\ loop.pc = "rearm" /\ loop.interests_guard
  /\ \E s \in Reported : ~interests[s].has /\ ~poller.sources[s].reg
  /\ queries[1].by = "caller" /\ queries[1].arg = "ECANCELLED"

\* A step in which the loop thread makes a process call.
ProcessCall == Len(loop'.told) = Len(loop.told) + 1

\* The sockets that the process call of this step reports as ready.
ToldNow ==
  LET call == loop'.told[Len(loop'.told)]
  IN  call.read \cup call.write

\* C39 as stated: the loop thread never reports readiness to the engine
\* for a socket that has no entry in the Interest Registry at the time of
\* the report.
C39_ReportsOnlyEntries ==
  [][ProcessCall => \A s \in ToldNow : interests[s].has]_vars

\* C39 amended: the loop thread reports readiness to the engine for
\* exactly the sockets that the wait of the cycle reported (all of them in
\* one batched call, or one per call), without consulting the Interest
\* Registry: a socket whose entry has been removed since the wait returned
\* is reported all the same, and a socket that the wait did not report is
\* not.
C39_ReportsWhatWaitReported ==
  [][ProcessCall =>
       /\ loop.pc = "handle"
       /\ ToldNow = IF cares1_34 THEN Reported
                    ELSE { e.key : e \in loop.todo \ loop'.todo }
       /\ ToldNow \subseteq Reported
       /\ loop'.events = loop.events]_vars

\* A caller's cancel removed the socket's entry after the wait had
\* reported the socket, and the loop thread has then reported it to the
\* engine in a call that changed no interest.
C39_Witness ==
  /\ loop.pc = "rearm"
  /\ poller.ops = <<>>
  /\ queries[1].arg = "ECANCELLED"
  /\ \E s \in Reported : ToldOf(s) # {} /\ ~interests[s].has

\* The FutureResolver and every CAresFuture derived from it are gone.
AllOwnersDropped == facade = "future" /\ ~user.alive /\ user.futures = {}

\* C40: the future facade leaks no loop thread: the Resolver is dropped
\* in the step that drops the last of the FutureResolver and its futures,
\* and so exactly once; the stop handle then sets the quit flag and wakes
\* the poller; and the loop thread comes to an end (by the quit flag, if
\* a loop-fatal poller error has not ended it before).
C40_NoLoopThreadLeak ==
  /\ [](facade = "future" =>
          /\ hist.drops = (IF AllOwnersDropped THEN 1 ELSE 0)
          /\ AllOwnersDropped = ~ResolverAlive)
  /\ [][hist'.drops # hist.drops =>
          (hist.drops = 0 /\ hist'.drops = 1 /\ user'.pc = "store")]_vars
  /\ [][(facade = "future" /\ user.pc = "notify" /\ user'.pc # "notify")
          => (quit /\ poller'.notified /\ AllOwnersDropped)]_vars
  /\ AllOwnersDropped
       ~> (quit /\ user.pc = "idle" /\ LoopStopped /\ ChannelDestroyed)

\* The FutureResolver and the future of a query in flight have both been
\* dropped, the Resolver with the second of them, and the loop thread has
\* seen the quit flag and terminated, tearing the channel down.
C40_Witness ==
  /\ AllOwnersDropped
  /\ hist.drops = 1 /\ hist.atDrop = {1}
  /\ chan[1] = "closed"
  /\ queries[1].arg = "EDESTRUCTION" /\ queries[1].by = "loop"
  /\ quit /\ loop.pc = "terminated" /\ user.pc = "idle"

====
